---- MODULE Spec2Model ----
(***************************************************************************)
(* Model of src/src/middleware/trace_extractor.rs: the OpenTelemetry       *)
(* tracing layers for HTTP and gRPC.  A request is turned into a span by   *)
(* make_span (span field builder + trace-context resolver) and the span is *)
(* then mutated by the lifecycle callbacks that the TraceLayer drives.     *)
(*                                                                         *)
(* Strings are sequences of tokens (one-character strings where the code   *)
(* works on characters).  An Option<T> is a sequence of length <= 1.       *)
(***************************************************************************)
EXTENDS Integers, Sequences, FiniteSets, TLC

VARIABLES
    layer,        \* "http" | "grpc": which of the two layers wraps the service
    propagator,   \* the process-wide text-map propagator: "noop" | "w3c"
    req,          \* the inbound request (headers, uri, extensions, ...)
    pc,           \* position of the request in the TraceLayer's lifecycle
    span,         \* the span's fields (field name -> Option value), or NoSpan
    prevSpan,     \* fields produced by the previous make_span on the same request
    otelContext,  \* what create_context_with_trace returned for `span`
    attach,       \* the set_parent / add_link calls made on `span`, in order
    resp,         \* the response head produced by the inner service, if any
    pending,      \* callbacks the response body still holds (classify_eos, on_failure, on_eos)
    chunks,       \* body chunks delivered so far
    calls,        \* callbacks invoked on this request, in order
    writes        \* the Span::record calls made on `span`: <<field, value>>, in order

vars == <<layer, propagator, req, pc, span, prevSpan, otelContext, attach,
          resp, pending, chunks, calls, writes>>

-----------------------------------------------------------------------------
(* Bounds of the model *)

\* trace ids range over 0 .. MaxTraceId (0 is the invalid, all-zero id)
MaxTraceId == 2
\* number of hex digits the model prints a trace id with
TraceIdHexLen == 2
\* longest X-Forwarded-For header value, in characters
MaxXffLen == 3
\* largest gRPC status code carried by a grpc-status header or trailer
MaxGrpcCode == 2
\* most body chunks a response streams
MaxChunks == 2

-----------------------------------------------------------------------------
(* Option and string helpers *)

None == <<>>
Some(v) == <<v>>
IsSome(o) == Len(o) = 1
Unwrap(o) == o[1]

\* every sequence over S of length <= n
SeqsUpTo(S, n) == UNION {[1..k -> S] : k \in 0..n}

\* str::trim: drop leading and trailing whitespace
RECURSIVE TrimStart(_)
TrimStart(s) ==
    IF s # <<>> /\ Head(s) = " " THEN TrimStart(Tail(s)) ELSE s

RECURSIVE TrimEnd(_)
TrimEnd(s) ==
    IF s # <<>> /\ s[Len(s)] = " " THEN TrimEnd(SubSeq(s, 1, Len(s) - 1)) ELSE s

Trim(s) == TrimEnd(TrimStart(s))

\* the first item of str::split(','): everything before the first comma
RECURSIVE SplitFirst(_)
SplitFirst(s) ==
    IF s = <<>> \/ Head(s) = "," THEN <<>>
    ELSE <<Head(s)>> \o SplitFirst(Tail(s))

\* HeaderValue::to_str: Some(text) when every byte is visible ASCII, else None
NonAscii == "#FF"
ToStr(v) == IF \E i \in 1..Len(v) : v[i] = NonAscii THEN None ELSE Some(v)

\* headers.get(h).map_or("", |h| h.to_str().unwrap_or(""))
HeaderOrEmpty(h) ==
    IF ~IsSome(h) THEN <<>>
    ELSE IF IsSome(ToStr(Unwrap(h))) THEN Unwrap(ToStr(Unwrap(h))) ELSE <<>>

HexDigits == <<"0", "1", "2", "3", "4", "5", "6", "7",
               "8", "9", "a", "b", "c", "d", "e", "f">>

\* format!("{:0w$x}"): lower-case hex, zero-padded to at least w digits
RECURSIVE HexOf(_)
HexOf(n) == IF n < 16 THEN <<HexDigits[n + 1]>>
            ELSE HexOf(n \div 16) \o <<HexDigits[(n % 16) + 1]>>

RECURSIVE ZeroPad(_, _)
ZeroPad(s, w) == IF Len(s) >= w THEN s ELSE ZeroPad(<<"0">> \o s, w)

\* Display of a TraceId, the `%trace_id` field value
TraceIdDisplay(id) == ZeroPad(HexOf(id), TraceIdHexLen)

\* u16::to_string / i32 display in decimal
RECURSIVE DecOf(_)
DecOf(n) == IF n < 10 THEN <<HexDigits[n + 1]>>
            ELSE DecOf(n \div 10) \o <<HexDigits[(n % 10) + 1]>>

-----------------------------------------------------------------------------
(* The request and what the hosting router adds to it *)

\* Method: an associated constant (Method::GET), or an extension method by its name
Methods == {"Method::GET", "Method::POST", "PURGE"}
Versions == {"Version::HTTP_10", "Version::HTTP_11", "Version::HTTP_2"}
Schemes == {None, Some("Scheme::HTTP"), Some("Scheme::HTTPS"), Some("ftp")}
HostHeaders == {None, Some(<<"h">>), Some(<<NonAscii>>)}
UserAgentHeaders == {None, Some(<<"t", "e", "s", "t", "s">>), Some(<<"t", NonAscii>>)}

XffAlphabet == {"a", "b", ",", " ", NonAscii}
XffHeaders == {None} \cup {Some(v) : v \in SeqsUpTo(XffAlphabet, MaxXffLen)}

Peers == {None, Some([ip |-> "10.0.0.1", port |-> "4000"])}

\* traceparent header: the fields of "version-traceid-spanid-flags", already
\* split and hex-decoded; any other number of fields is a malformed header
TraceParents ==
    {None, Some([utf8 |-> TRUE, fields |-> <<0, 1>>])}
    \cup {Some([utf8 |-> u, fields |-> <<0, t, s, 1>>]) :
             u \in BOOLEAN, t \in 0..MaxTraceId, s \in 0..1}

\* the router of tests::check_span_event: three routes, one nested router,
\* and the fallbacks
ParamSegments == {":id", ":nest_id"}
RouteTemplates == {<<"users", ":id">>, <<"status", "500">>,
                   <<"with_child_span">>, <<"nest", ":nest_id">>}
NestPrefix == "nest"

\* the request URIs of the test cases, the root, and a path that spells a template
Paths == {<<"users", "123">>, <<"idontexist", "123">>, <<"status", "500">>,
          <<"with_child_span">>, <<"nest", "123">>, <<"users", ":id">>,
          <<"users">>, <<>>}
Queries == {None, Some("q=1")}

SegmentMatches(t, s) == t \in ParamSegments \/ t = s

TemplateMatches(t, path) ==
    /\ Len(t) = Len(path)
    /\ \A i \in 1..Len(t) : SegmentMatches(t[i], path[i])

\* at most one template of the router matches a path
MatchedTemplate(path) ==
    IF \E t \in RouteTemplates : TemplateMatches(t, path)
    THEN Some(CHOOSE t \in RouteTemplates : TemplateMatches(t, path))
    ELSE None

\* Router::call: keeps the original URI, records the matched template, and
\* hands a nested router the URI with the prefix stripped
Routed(r) ==
    [r EXCEPT
        !.original_uri = Some(r.uri),
        !.matched_path = MatchedTemplate(r.uri.path),
        !.uri = IF r.uri.path # <<>> /\ Head(r.uri.path) = NestPrefix
                THEN [r.uri EXCEPT !.path = Tail(r.uri.path)]
                ELSE r.uri]

\* the request as it leaves the HTTP server, before any router has seen it
RawRequest(m, v, sc, p, q, h, ua, x, tp, peer) ==
    [method |-> m, version |-> v, scheme |-> sc, uri |-> [path |-> p, query |-> q],
     host |-> h, user_agent |-> ua, xff |-> x, traceparent |-> tp,
     matched_path |-> None, original_uri |-> None, connect_info |-> peer]

BaseTraceParent == Some([utf8 |-> TRUE, fields |-> <<0, 1, 1, 1>>])

\* requests that vary the client-address inputs
ClientIpRequests ==
    {RawRequest("Method::GET", "Version::HTTP_11", None, <<"users", "123">>, None,
                None, None, x, tp, peer) :
        x \in XffHeaders, peer \in Peers, tp \in {BaseTraceParent}}

\* requests that vary method and URI; each is seen behind the router and bare
RoutingRequests ==
    LET raw == {RawRequest(m, "Version::HTTP_11", None, p, q, None, None, None, tp, None) :
                   m \in Methods, p \in Paths, q \in Queries, tp \in {None, BaseTraceParent}}
    IN  raw \cup {Routed(r) : r \in raw}

\* requests that vary version, scheme and the plain headers
HeaderRequests ==
    {Routed(RawRequest("Method::GET", v, sc, <<"users", "123">>, None, h, ua, None, None, None)) :
        v \in Versions, sc \in Schemes, h \in HostHeaders, ua \in UserAgentHeaders}

\* requests that vary the propagation header
TraceRequests ==
    {Routed(RawRequest("Method::GET", "Version::HTTP_11", None, p, None, None, None, None, tp, None)) :
        p \in {<<"users", "123">>, <<"idontexist", "123">>}, tp \in TraceParents}

Requests == ClientIpRequests \cup RoutingRequests \cup HeaderRequests \cup TraceRequests

-----------------------------------------------------------------------------
(* Span field builder *)

parse_x_forwarded_for(r) ==
    IF ~IsSome(r.xff) THEN None
    ELSE IF ~IsSome(ToStr(Unwrap(r.xff))) THEN None
    ELSE Some(Trim(SplitFirst(Unwrap(ToStr(Unwrap(r.xff))))))

\* SocketAddr::to_string
SocketAddrDisplay(a) == <<a.ip, ":", a.port>>

client_ip(r) ==
    IF IsSome(parse_x_forwarded_for(r)) THEN Unwrap(parse_x_forwarded_for(r))
    ELSE IF IsSome(r.connect_info) THEN SocketAddrDisplay(Unwrap(r.connect_info))
    ELSE <<>>

http_method(m) ==
    CASE m = "Method::CONNECT" -> "CONNECT"
      [] m = "Method::DELETE" -> "DELETE"
      [] m = "Method::GET" -> "GET"
      [] m = "Method::HEAD" -> "HEAD"
      [] m = "Method::OPTIONS" -> "OPTIONS"
      [] m = "Method::PATCH" -> "PATCH"
      [] m = "Method::POST" -> "POST"
      [] m = "Method::PUT" -> "PUT"
      [] m = "Method::TRACE" -> "TRACE"
      [] OTHER -> m

http_flavor(v) ==
    CASE v = "Version::HTTP_09" -> "0.9"
      [] v = "Version::HTTP_10" -> "1.0"
      [] v = "Version::HTTP_11" -> "1.1"
      [] v = "Version::HTTP_2" -> "2.0"
      [] v = "Version::HTTP_3" -> "3.0"
      [] OTHER -> v

http_scheme(s) ==
    IF s = "Scheme::HTTP" THEN "http"
    ELSE IF s = "Scheme::HTTPS" THEN "https"
    ELSE s

scheme_field(r) == IF IsSome(r.scheme) THEN http_scheme(Unwrap(r.scheme)) ELSE "HTTP"

\* a path or a route template as text: "/seg/seg"
RECURSIVE PathString(_)
PathString(p) ==
    IF p = <<>> THEN <<>> ELSE <<"/", Head(p)>> \o PathString(Tail(p))

PathDisplay(p) == IF p = <<>> THEN <<"/">> ELSE PathString(p)

\* PathAndQuery::to_string
PathAndQueryDisplay(u) ==
    IF IsSome(u.query) THEN PathDisplay(u.path) \o <<"?", Unwrap(u.query)>>
    ELSE PathDisplay(u.path)

\* http.route that falls back to the request path when no route matched
http_route_FromUri(r) ==
    IF IsSome(r.matched_path) THEN PathDisplay(Unwrap(r.matched_path))
    ELSE PathDisplay(r.uri.path)

http_route(r) ==
    IF IsSome(r.matched_path) THEN PathDisplay(Unwrap(r.matched_path)) ELSE <<>>

http_target(r) ==
    LET uri == IF IsSome(r.original_uri) THEN Unwrap(r.original_uri) ELSE r.uri
    IN  PathAndQueryDisplay(uri)

\* format!("{http_method_v} {http_route}").trim()
otel_name(r) == Trim(<<http_method(r.method), " ">> \o http_route(r))

-----------------------------------------------------------------------------
(* Trace-context extraction and resolution *)

\* the span context of a Context that carries no span
EmptySpanContext ==
    [trace_id |-> 0, span_id |-> 0, trace_flags |-> 0, is_remote |-> FALSE]

\* SpanContext::is_valid
is_valid(sc) == sc.trace_id # 0 /\ sc.span_id # 0

\* HeaderExtractor::get for the traceparent key
ExtractorGet(h) ==
    IF IsSome(h) /\ Unwrap(h).utf8 THEN Some(Unwrap(h).fields) ELSE None

\* TraceContextPropagator::extract: a well-formed header with a valid span
\* context yields that context, marked remote; anything else yields the
\* current context, which has no span
W3CExtract(h) ==
    LET got == ExtractorGet(h)
        f == Unwrap(got)
        sc == [trace_id |-> f[2], span_id |-> f[3], trace_flags |-> f[4],
               is_remote |-> TRUE]
    IN  IF ~IsSome(got) THEN EmptySpanContext
        ELSE IF Len(f) # 4 THEN EmptySpanContext
        ELSE IF ~is_valid(sc) THEN EmptySpanContext
        ELSE sc

\* global::get_text_map_propagator(|p| p.extract(..)): the installed propagator,
\* or the no-op one when none was installed
extract_remote_context(r, prop) ==
    IF prop = "w3c" THEN W3CExtract(r.traceparent) ELSE EmptySpanContext

\* what RandomIdGenerator can return for (new_trace_id, new_span_id)
RandomIds == [trace_id : 0..MaxTraceId, span_id : 0..1]

\* create_context_with_trace that mints a fresh id whatever it was given
create_context_with_trace_AlwaysMint(remote_context, rnd) ==
    [trace_id |-> rnd.trace_id,
     kind |-> "Local",
     cx |-> [trace_id |-> rnd.trace_id, span_id |-> rnd.span_id,
             trace_flags |-> remote_context.trace_flags,
             is_remote |-> FALSE]]

create_context_with_trace(remote_context, rnd) ==
    IF ~is_valid(remote_context)
    THEN [trace_id |-> rnd.trace_id,
          kind |-> "Local",
          cx |-> [trace_id |-> rnd.trace_id, span_id |-> rnd.span_id,
                  trace_flags |-> remote_context.trace_flags,
                  is_remote |-> FALSE]]
    ELSE [trace_id |-> remote_context.trace_id,
          kind |-> "Remote",
          cx |-> remote_context]

-----------------------------------------------------------------------------
(* make_span *)

\* tracing::field::Empty
Empty == None

\* the fields both spans declare, with their values at creation
CommonFields(r, name, trace_id) ==
    [f \in {"otel.name", "http.client_ip", "http.flavor", "http.host",
            "http.method", "http.route", "http.scheme", "http.status_code",
            "http.target", "http.user_agent", "otel.kind", "otel.status_code",
            "trace_id"} |->
        CASE f = "otel.name" -> Some(name)
          [] f = "http.client_ip" -> Some(client_ip(r))
          [] f = "http.flavor" -> Some(http_flavor(r.version))
          [] f = "http.host" -> Some(HeaderOrEmpty(r.host))
          [] f = "http.method" -> Some(http_method(r.method))
          [] f = "http.route" -> Some(http_route(r))
          [] f = "http.scheme" -> Some(scheme_field(r))
          [] f = "http.status_code" -> Empty
          [] f = "http.target" -> Some(http_target(r))
          [] f = "http.user_agent" -> Some(HeaderOrEmpty(r.user_agent))
          [] f = "otel.kind" -> Some("server")
          [] f = "otel.status_code" -> Empty
          [] f = "trace_id" -> Some(TraceIdDisplay(trace_id))]

\* info_span!("HTTP request", ...)
HttpSpanFields(r, trace_id) == CommonFields(r, otel_name(r), trace_id)

\* info_span!("grpc request", ...): named after the target, with http.grpc_status
GrpcSpanFields(r, trace_id) ==
    CommonFields(r, http_target(r), trace_id) @@ ("http.grpc_status" :> Empty)

\* the attachment with the Local arm calling set_parent too
AttachCall_AlwaysParent(ctx) == [op |-> "set_parent", cx |-> ctx.cx]

\* match otel_context { Remote(cx) => set_parent(&span, cx), Local(cx) => add_link(&span, cx) }
AttachCall(ctx) ==
    IF ctx.kind = "Remote" THEN [op |-> "set_parent", cx |-> ctx.cx]
    ELSE [op |-> "add_link", cx |-> ctx.cx]

\* OtelMakeSpan::make_span / OtelMakeGrpcSpan::make_span: the context is
\* resolved first, the span is created with the resolved trace id, and the
\* context is attached to the created span
make_span(l, r, prop, rnd) ==
    LET ctx == create_context_with_trace(extract_remote_context(r, prop), rnd)
    IN  [fields |-> IF l = "grpc" THEN GrpcSpanFields(r, ctx.trace_id)
                    ELSE HttpSpanFields(r, ctx.trace_id),
         ctx |-> ctx,
         attach |-> <<AttachCall(ctx)>>]

\* Span::record: sets a field the span declares, and is a no-op for any other
Record(sp, f, v) == IF f \in DOMAIN sp THEN [sp EXCEPT ![f] = Some(v)] ELSE sp

NoSpan == <<>>
NoContext == [trace_id |-> 0, kind |-> "None", cx |-> EmptySpanContext]
NoResponse == [status |-> 0, grpc_status |-> None]

-----------------------------------------------------------------------------
(* Lifecycle callbacks.  A callback takes and returns the recorder           *)
(* [fields, writes]: the span's fields and the log of record calls.          *)

\* span.record(f, v) on the recorder
SpanRecord(s, f, v) ==
    IF f \in DOMAIN s.fields
    THEN [fields |-> Record(s.fields, f, v), writes |-> Append(s.writes, <<f, v>>)]
    ELSE s

\* is_server_error without the upper end of the 5xx class
is_server_error_Unbounded(code) == code >= 500

\* StatusCode::is_server_error
is_server_error(code) == 600 > code /\ code >= 500

\* OtelOnRequest::on_request
on_request(s) == s

\* on_response that records the optimistic status only
on_response_NoStatus(s, status) == SpanRecord(s, "otel.status_code", "OK")

\* OtelOnResponse::on_response
on_response(s, status) ==
    SpanRecord(SpanRecord(s, "http.status_code", DecOf(status)),
               "otel.status_code", "OK")

\* on_body_chunk that re-asserts the optimistic status on every chunk
on_body_chunk_RecordsOk(s) == SpanRecord(s, "otel.status_code", "OK")

\* OtelOnBodyChunk::on_body_chunk
on_body_chunk(s) == s

\* on_eos that settles the status as OK at end of stream
on_eos_RecordsOk(s, trailers) == SpanRecord(s, "otel.status_code", "OK")

\* OtelOnEos::on_eos
on_eos(s, trailers) == s

\* on_failure that records only for a generic error
on_failure_IgnoresStatus(s, failure) ==
    IF failure.tag = "StatusCode" THEN s
    ELSE SpanRecord(s, "otel.status_code", "ERROR")

\* OtelOnFailure::on_failure, for ServerErrorsFailureClass
on_failure(s, failure) ==
    IF failure.tag = "StatusCode"
    THEN IF is_server_error(failure.code)
         THEN SpanRecord(s, "otel.status_code", "ERROR")
         ELSE s
    ELSE SpanRecord(s, "otel.status_code", "ERROR")

\* on_failure for gRPC that records a generic error as code 2
on_grpc_failure_ErrorAsTwo(s, failure) ==
    IF failure.tag = "Code"
    THEN SpanRecord(s, "http.grpc_status", failure.code)
    ELSE SpanRecord(s, "http.grpc_status", 2)

\* OtelOnGrpcFailure::on_failure, for GrpcFailureClass
on_grpc_failure(s, failure) ==
    IF failure.tag = "Code"
    THEN SpanRecord(s, "http.grpc_status", failure.code)
    ELSE SpanRecord(s, "http.grpc_status", 1)

\* the on_failure callback the layer was built with
LayerOnFailure(l, s, failure) ==
    IF l = "grpc" THEN on_grpc_failure(s, failure) ELSE on_failure(s, failure)

-----------------------------------------------------------------------------
(* The classifiers the two layers are built with *)

StatusCodeFailure(code) == [tag |-> "StatusCode", code |-> code]
CodeFailure(code) == [tag |-> "Code", code |-> code]
ErrorFailure == [tag |-> "Error", code |-> 0]

\* a grpc-status header or trailer: absent, not an integer (-1), or a code
NotInt == -1
GrpcStatusHeaders == {None, Some(NotInt)} \cup {Some(c) : c \in 0..MaxGrpcCode}

\* classify_grpc_metadata with the default success codes (OK only)
GrpcMetadata(h) ==
    IF ~IsSome(h) THEN "GrpcStatusHeaderMissing"
    ELSE IF Unwrap(h) = NotInt THEN "HeaderNotInt"
    ELSE IF Unwrap(h) = 0 THEN "Success"
    ELSE "NonSuccess"

\* ClassifyResponse::classify_response of ServerErrorsAsFailures (new_for_http)
\* and of GrpcErrorsAsFailures (new_for_grpc):
\* [eos |-> classification is deferred to end of stream, failure |-> Option]
classify_response(l, r) ==
    IF l = "http"
    THEN [eos |-> FALSE,
          failure |-> IF is_server_error(r.status)
                      THEN Some(StatusCodeFailure(r.status)) ELSE None]
    ELSE CASE GrpcMetadata(r.grpc_status) = "NonSuccess" ->
                [eos |-> FALSE, failure |-> Some(CodeFailure(Unwrap(r.grpc_status)))]
           [] GrpcMetadata(r.grpc_status) = "GrpcStatusHeaderMissing" ->
                [eos |-> TRUE, failure |-> None]
           [] OTHER -> [eos |-> FALSE, failure |-> None]

\* ClassifyEos::classify_eos of GrpcErrorsAsFailures, on the trailers
classify_eos(trailers) ==
    IF GrpcMetadata(trailers) = "NonSuccess"
    THEN Some(CodeFailure(Unwrap(trailers))) ELSE None

\* the response heads a handler can produce
Statuses == {200, 404, 500, 599}
Responses == [status : Statuses, grpc_status : GrpcStatusHeaders]

NothingPending ==
    [failure |-> None, classify_eos |-> FALSE, on_failure |-> FALSE, on_eos |-> FALSE]

-----------------------------------------------------------------------------
(* The request lifecycle, as the TraceLayer drives it *)

Recorder == [fields |-> span, writes |-> writes]

\* an entry of the call log: the callback and the argument it was given
Call(cb, arg) == [cb |-> cb, arg |-> arg]

\* the state before Trace::call, for a request drawn from R
InitWith(R) ==
    /\ layer \in {"http", "grpc"}
    /\ propagator \in {"noop", "w3c"}
    /\ req \in R
    /\ pc = "new"
    /\ span = NoSpan
    /\ prevSpan = NoSpan
    /\ otelContext = NoContext
    /\ attach = <<>>
    /\ resp = NoResponse
    /\ pending = NothingPending
    /\ chunks = 0
    /\ calls = <<>>
    /\ writes = <<>>

\* Trace::call, first half: make_span(&req)
MakeSpan ==
    /\ pc = "new"
    /\ \E rnd \in RandomIds :
         LET made == make_span(layer, req, propagator, rnd)
         IN  /\ span' = made.fields
             /\ otelContext' = made.ctx
             /\ attach' = made.attach
    /\ pc' = "span"
    /\ calls' = Append(calls, Call("make_span", None))
    /\ UNCHANGED <<layer, propagator, req, prevSpan, resp, pending, chunks, writes>>

\* Trace::call, second half: on_request(&req, &span), then the inner service is called
OnRequest ==
    /\ pc = "span"
    /\ span' = on_request(Recorder).fields
    /\ writes' = on_request(Recorder).writes
    /\ pc' = "inner"
    /\ calls' = Append(calls, Call("on_request", None))
    /\ UNCHANGED <<layer, propagator, req, prevSpan, otelContext, attach, resp,
                   pending, chunks>>

\* ResponseFuture::poll, Err(err): on_failure(classify_error(&err))
FutureError ==
    /\ pc = "inner"
    /\ span' = LayerOnFailure(layer, Recorder, ErrorFailure).fields
    /\ writes' = LayerOnFailure(layer, Recorder, ErrorFailure).writes
    /\ pc' = "done"
    /\ calls' = Append(calls, Call("on_failure", ErrorFailure))
    /\ UNCHANGED <<layer, propagator, req, prevSpan, otelContext, attach, resp,
                   pending, chunks>>

\* ResponseFuture::poll, Ok(res): the response is classified, then on_response
\* runs; a failure that is ready is reported next, an end-of-stream classifier
\* is handed to the response body together with on_eos
FutureResponse ==
    /\ pc = "inner"
    /\ \E r \in Responses :
         LET c == classify_response(layer, r)
         IN  /\ resp' = r
             /\ span' = on_response(Recorder, r.status).fields
             /\ writes' = on_response(Recorder, r.status).writes
             /\ pending' = [failure |-> c.failure, classify_eos |-> c.eos,
                            on_failure |-> TRUE, on_eos |-> c.eos]
             /\ pc' = IF IsSome(c.failure) THEN "responded" ELSE "body"
             /\ calls' = Append(calls, Call("on_response", r))
    /\ UNCHANGED <<layer, propagator, req, prevSpan, otelContext, attach, chunks>>

\* ResponseFuture::poll, ClassifiedResponse::Ready(Err(failure_class))
ReadyFailure ==
    /\ pc = "responded"
    /\ span' = LayerOnFailure(layer, Recorder, Unwrap(pending.failure)).fields
    /\ writes' = LayerOnFailure(layer, Recorder, Unwrap(pending.failure)).writes
    /\ pending' = [pending EXCEPT !.failure = None]
    /\ pc' = "body"
    /\ calls' = Append(calls, Call("on_failure", Unwrap(pending.failure)))
    /\ UNCHANGED <<layer, propagator, req, prevSpan, otelContext, attach, resp, chunks>>

\* ResponseBody::poll_data, Ok(chunk): on_body_chunk
BodyChunk ==
    /\ pc = "body"
    /\ chunks < MaxChunks
    /\ chunks' = chunks + 1
    /\ span' = on_body_chunk(Recorder).fields
    /\ writes' = on_body_chunk(Recorder).writes
    /\ calls' = Append(calls, Call("on_body_chunk", None))
    /\ UNCHANGED <<layer, propagator, req, pc, prevSpan, otelContext, attach, resp,
                   pending>>

\* ResponseBody::poll_data or poll_trailers, Err(err): if the body still holds
\* the end-of-stream classifier and on_failure, on_failure(classify_error(err))
StreamError ==
    /\ pc = "body"
    /\ IF pending.classify_eos /\ pending.on_failure
       THEN /\ span' = LayerOnFailure(layer, Recorder, ErrorFailure).fields
            /\ writes' = LayerOnFailure(layer, Recorder, ErrorFailure).writes
            /\ calls' = Append(calls, Call("on_failure", ErrorFailure))
       ELSE UNCHANGED <<span, writes, calls>>
    /\ pending' = IF pending.classify_eos /\ pending.on_failure
                  THEN [pending EXCEPT !.classify_eos = FALSE, !.on_failure = FALSE]
                  ELSE pending
    /\ pc' = "done"
    /\ UNCHANGED <<layer, propagator, req, prevSpan, otelContext, attach, resp, chunks>>

\* ResponseBody::poll_trailers, Ok(trailers): if the body still holds the
\* end-of-stream classifier, the trailers are classified and a failure is
\* reported; on_eos follows
Trailers ==
    /\ pc = "body"
    /\ \E t \in GrpcStatusHeaders :
         IF pending.classify_eos /\ pending.on_failure
         THEN /\ IF IsSome(classify_eos(t))
                 THEN /\ span' = LayerOnFailure(layer, Recorder, Unwrap(classify_eos(t))).fields
                      /\ writes' = LayerOnFailure(layer, Recorder, Unwrap(classify_eos(t))).writes
                      /\ calls' = Append(calls, Call("on_failure", Unwrap(classify_eos(t))))
                 ELSE UNCHANGED <<span, writes, calls>>
              /\ pending' = [pending EXCEPT !.classify_eos = FALSE, !.on_failure = FALSE]
              /\ pc' = IF pending.on_eos THEN "eos" ELSE "done"
         ELSE /\ UNCHANGED <<span, writes, calls, pending>>
              /\ pc' = "done"
    /\ UNCHANGED <<layer, propagator, req, prevSpan, otelContext, attach, resp, chunks>>

\* ResponseBody::poll_trailers, after the classification: on_eos
OnEos ==
    /\ pc = "eos"
    /\ span' = on_eos(Recorder, None).fields
    /\ writes' = on_eos(Recorder, None).writes
    /\ pending' = [pending EXCEPT !.on_eos = FALSE]
    /\ pc' = "done"
    /\ calls' = Append(calls, Call("on_eos", None))
    /\ UNCHANGED <<layer, propagator, req, prevSpan, otelContext, attach, resp, chunks>>

\* the response future or the response body is dropped before it completes
Dropped ==
    /\ pc \in {"inner", "body"}
    /\ pc' = "done"
    /\ UNCHANGED <<layer, propagator, req, span, prevSpan, otelContext, attach, resp,
                   pending, chunks, calls, writes>>

\* the requests the lifecycle is explored for
LifecycleRequests ==
    {Routed(RawRequest("Method::GET", "Version::HTTP_11", None, p, None, None, None,
                       None, tp, None)) :
        p \in {<<"users", "123">>, <<"idontexist", "123">>},
        tp \in {None, BaseTraceParent}}

Init == InitWith(LifecycleRequests)

Next ==
    \/ MakeSpan
    \/ OnRequest
    \/ FutureError
    \/ FutureResponse
    \/ ReadyFailure
    \/ BodyChunk
    \/ StreamError
    \/ Trailers
    \/ OnEos
    \/ Dropped

Spec == Init /\ [][Next]_vars

-----------------------------------------------------------------------------
(* The span field builder on its own: make_span applied to one unchanged     *)
(* request, once and then once more.                                         *)

\* make_span(&req) again on the same request; the earlier fields are kept aside
MakeSpanAgain ==
    /\ pc = "span"
    /\ Len(calls) = 1
    /\ \E rnd \in RandomIds :
         LET made == make_span(layer, req, propagator, rnd)
         IN  /\ span' = made.fields
             /\ otelContext' = made.ctx
             /\ attach' = made.attach
    /\ prevSpan' = span
    /\ calls' = Append(calls, Call("make_span", None))
    /\ UNCHANGED <<layer, propagator, req, pc, resp, pending, chunks, writes>>

\* every request is built under the installed W3C propagator; the requests that
\* vary the propagation header also under the no-op propagator
InitBuilder ==
    /\ InitWith(Requests)
    /\ propagator = "noop" => req \in TraceRequests

NextBuilder ==
    \/ MakeSpan
    \/ MakeSpanAgain

SpecBuilder == InitBuilder /\ [][NextBuilder]_vars

-----------------------------------------------------------------------------
(* The callbacks on their own: after make_span, any callback with any        *)
(* argument of its type, in any order.                                       *)

\* hook calls made on one span
MaxHookCalls == 2

\* StatusCode holds 100..=999
HookStatusCodes == {100, 200, 404, 499, 500, 599, 600, 999}

\* the failure classes of the layer's classifier type
FailureClasses(l) ==
    IF l = "grpc"
    THEN {CodeFailure(c) : c \in 1..MaxGrpcCode} \cup {ErrorFailure}
    ELSE {StatusCodeFailure(c) : c \in HookStatusCodes} \cup {ErrorFailure}

HookGuard == pc = "span" /\ Len(calls) <= MaxHookCalls

HookFrame == UNCHANGED <<layer, propagator, req, pc, prevSpan, otelContext, attach,
                         resp, pending, chunks>>

CallOnRequest ==
    /\ HookGuard
    /\ span' = on_request(Recorder).fields
    /\ writes' = on_request(Recorder).writes
    /\ calls' = Append(calls, Call("on_request", None))
    /\ HookFrame

CallOnResponse ==
    /\ HookGuard
    /\ \E st \in HookStatusCodes :
         /\ span' = on_response(Recorder, st).fields
         /\ writes' = on_response(Recorder, st).writes
         /\ calls' = Append(calls, Call("on_response", [status |-> st, grpc_status |-> None]))
    /\ HookFrame

CallOnBodyChunk ==
    /\ HookGuard
    /\ span' = on_body_chunk(Recorder).fields
    /\ writes' = on_body_chunk(Recorder).writes
    /\ calls' = Append(calls, Call("on_body_chunk", None))
    /\ HookFrame

CallOnEos ==
    /\ HookGuard
    /\ \E t \in GrpcStatusHeaders :
         /\ span' = on_eos(Recorder, t).fields
         /\ writes' = on_eos(Recorder, t).writes
         /\ calls' = Append(calls, Call("on_eos", t))
    /\ HookFrame

CallOnFailure ==
    /\ HookGuard
    /\ \E f \in FailureClasses(layer) :
         /\ span' = LayerOnFailure(layer, Recorder, f).fields
         /\ writes' = LayerOnFailure(layer, Recorder, f).writes
         /\ calls' = Append(calls, Call("on_failure", f))
    /\ HookFrame

HookRequests ==
    {Routed(RawRequest("Method::GET", "Version::HTTP_11", None, <<"users", "123">>, None,
                       None, None, None, BaseTraceParent, None))}

InitHooks == InitWith(HookRequests)

NextHooks ==
    \/ MakeSpan
    \/ CallOnRequest
    \/ CallOnResponse
    \/ CallOnBodyChunk
    \/ CallOnEos
    \/ CallOnFailure

SpecHooks == InitHooks /\ [][NextHooks]_vars

-----------------------------------------------------------------------------
(* Properties *)

Field(f) == span[f]
OtelStatus == span["otel.status_code"]
LastCall == calls[Len(calls)]
Built == pc = "span" /\ Len(calls) >= 1 /\ LastCall.cb = "make_span"

\* the context the installed propagator extracts from the request's headers
Extracted == extract_remote_context(req, propagator)

\* the trace id written in the traceparent header
HeaderTraceId == Unwrap(req.traceparent).fields[2]

\* C1: when the request's headers yield a valid remote span context, the span's
\* trace_id field is the header's trace id, the resolver returned Remote, and
\* the one attachment made is set_parent with that context (no add_link).
C1_RemoteAdopted ==
    (Built /\ is_valid(Extracted)) =>
        /\ Field("trace_id") = Some(TraceIdDisplay(HeaderTraceId))
        /\ otelContext.kind = "Remote"
        /\ otelContext.trace_id = HeaderTraceId
        /\ Len(attach) = 1
        /\ attach[1].op = "set_parent"
        /\ attach[1].cx.trace_id = HeaderTraceId
        /\ attach[1].cx.is_remote

C1_Witness ==
    /\ Built
    /\ layer = "grpc"
    /\ is_valid(Extracted)
    /\ HeaderTraceId = 2
    /\ Field("trace_id") = Some(<<"0", "2">>)
    /\ attach[1].op = "set_parent"

\* C2: when the extracted context is not valid, the resolver mints an id and
\* returns Local, the span's trace_id field is that id's non-empty text, and
\* the synthetic context is attached with add_link only; every set_parent call
\* carries a valid remote context with the header's trace id.
C2_LocalLinked ==
    /\ (Built /\ ~is_valid(Extracted)) =>
          /\ otelContext.kind = "Local"
          /\ Field("trace_id") = Some(TraceIdDisplay(otelContext.trace_id))
          /\ Len(Unwrap(Field("trace_id"))) > 0
          /\ Len(attach) = 1
          /\ attach[1].op = "add_link"
          /\ attach[1].cx.trace_id = otelContext.trace_id
          /\ ~attach[1].cx.is_remote
    /\ \A i \in 1..Len(attach) :
          attach[i].op = "set_parent" =>
             /\ otelContext.kind = "Remote"
             /\ is_valid(attach[i].cx)
             /\ attach[i].cx.is_remote
             /\ IsSome(req.traceparent)
             /\ attach[i].cx.trace_id = HeaderTraceId

C2_Witness ==
    /\ Built
    /\ propagator = "w3c"
    /\ IsSome(req.traceparent)
    /\ ~is_valid(Extracted)
    /\ otelContext.kind = "Local"
    /\ otelContext.trace_id = 1
    /\ attach[1].op = "add_link"

\* C3: in the HTTP layer, when the request's callbacks have all run,
\* otel.status_code is "OK" after a 200 response and "ERROR" after a 500.
C3_FinalStatus ==
    (layer = "http" /\ pc = "done" /\ resp # NoResponse) =>
        /\ resp.status = 200 => OtelStatus = Some("OK")
        /\ resp.status = 500 => OtelStatus = Some("ERROR")

C3_Witness ==
    /\ layer = "http"
    /\ pc = "done"
    /\ resp.status = 500
    /\ OtelStatus = Some("ERROR")
    /\ writes = << <<"http.status_code", <<"5", "0", "0">> >>,
                   <<"otel.status_code", "OK">>,
                   <<"otel.status_code", "ERROR">> >>

\* a failure callback ran after on_response on this request
FailureAfterResponse ==
    \E i, j \in 1..Len(calls) :
        i < j /\ calls[i].cb = "on_response" /\ calls[j].cb = "on_failure"

\* C4: in either layer, when a failure callback fired after on_response, the
\* request ends with otel.status_code "ERROR", not the optimistic "OK".
C4_FailureWins ==
    (pc = "done" /\ FailureAfterResponse) => OtelStatus = Some("ERROR")

\* the failure callbacks that ran on this request
FailureCalls == {i \in 1..Len(calls) : calls[i].cb = "on_failure"}

\* C5: in the gRPC layer, http.grpc_status is the code n of a coded failure,
\* 1 after a generic error, and empty while no failure callback has fired.
C5_GrpcStatus ==
    (layer = "grpc" /\ pc # "new") =>
        /\ FailureCalls = {} => Field("http.grpc_status") = Empty
        /\ \A i \in FailureCalls :
              /\ calls[i].arg.tag = "Code" =>
                    Field("http.grpc_status") = Some(calls[i].arg.code)
              /\ calls[i].arg.tag = "Error" =>
                    Field("http.grpc_status") = Some(1)
        /\ (pc = "body" /\ resp.grpc_status = Some(2)) =>
              Field("http.grpc_status") = Some(2)

C5_Witness ==
    /\ layer = "grpc"
    /\ pc = "done"
    /\ \E i \in FailureCalls : calls[i].arg.tag = "Error"
    /\ Field("http.grpc_status") = Some(1)
    /\ OtelStatus = Some("OK")

\* the client address the contract of section 4.1 describes
ClaimedClientIp(r) ==
    IF IsSome(r.xff) /\ IsSome(ToStr(Unwrap(r.xff))) /\ Unwrap(r.xff) # <<>>
    THEN Trim(SplitFirst(Unwrap(r.xff)))
    ELSE IF IsSome(r.connect_info) THEN SocketAddrDisplay(Unwrap(r.connect_info))
    ELSE <<>>

\* C6: http.client_ip is the trimmed first token of X-Forwarded-For when the
\* header is present and non-empty, else the peer socket address when there
\* is one, else the empty string.
C6_ClientIp ==
    Built => Field("http.client_ip") = Some(ClaimedClientIp(req))

\* the path the client asked for, and whether a router has seen the request
RequestedPath ==
    IF IsSome(req.original_uri) THEN Unwrap(req.original_uri).path ELSE req.uri.path
WasRouted == IsSome(req.original_uri)
RouterMatched == WasRouted /\ \E t \in RouteTemplates : TemplateMatches(t, RequestedPath)

\* C7: http.route is the matched template when the router matched a route and
\* the empty string otherwise; it is the concrete path only when that path
\* spells a template.  /users/123 gives route "/users/:id", target "/users/123".
C7_Route ==
    Built =>
        /\ RouterMatched =>
              \E t \in RouteTemplates :
                  /\ TemplateMatches(t, RequestedPath)
                  /\ Field("http.route") = Some(PathDisplay(t))
        /\ ~RouterMatched => Field("http.route") = Some(<<>>)
        /\ Field("http.route") = Some(PathDisplay(RequestedPath)) =>
              RequestedPath \in RouteTemplates
        /\ (WasRouted /\ RequestedPath = <<"users", "123">> /\ ~IsSome(req.uri.query)) =>
              /\ Field("http.route") = Some(<<"/", "users", "/", ":id">>)
              /\ Field("http.target") = Some(<<"/", "users", "/", "123">>)

C7_Witness ==
    /\ Built
    /\ WasRouted
    /\ RequestedPath = <<"nest", "123">>
    /\ req.uri.path = <<"123">>
    /\ Field("http.route") = Some(<<"/", "nest", "/", ":nest_id">>)
    /\ Field("http.target") = Some(<<"/", "nest", "/", "123">>)

BuiltTwice == pc = "span" /\ Len(calls) = 2

\* C8, as claimed: make_span twice on the same request gives the same value
\* for every span field.
C8_AllFieldsEqual ==
    BuiltTwice => span = prevSpan

\* C8, amended: the two runs agree on every field other than trace_id, and on
\* trace_id too when the headers yield a valid remote context.
C8_Idempotent ==
    BuiltTwice =>
        /\ DOMAIN span = DOMAIN prevSpan
        /\ \A f \in DOMAIN span \ {"trace_id"} : span[f] = prevSpan[f]
        /\ is_valid(Extracted) => span["trace_id"] = prevSpan["trace_id"]

C8_Witness ==
    /\ BuiltTwice
    /\ ~is_valid(Extracted)
    /\ span["trace_id"] # prevSpan["trace_id"]
    /\ span["http.client_ip"] = prevSpan["http.client_ip"]
    /\ span["otel.name"] = Some(<<"PURGE", " ", "/", "users", "/", ":id">>)

\* a step that runs the HTTP on_failure callback, and the class it is given
HttpFailureStep ==
    /\ layer = "http"
    /\ Len(calls') = Len(calls) + 1
    /\ calls'[Len(calls')].cb = "on_failure"
GivenFailure == calls'[Len(calls')].arg

\* C9, as claimed: status code >= 500 overwrites otel.status_code with "ERROR",
\* a generic error always does, a status code in [100,500) changes nothing.
C9_AtLeast500 ==
    [][HttpFailureStep =>
        /\ (GivenFailure.tag = "StatusCode" /\ GivenFailure.code >= 500) =>
              span'["otel.status_code"] = Some("ERROR")
        /\ GivenFailure.tag = "Error" => span'["otel.status_code"] = Some("ERROR")
        /\ (GivenFailure.tag = "StatusCode" /\ GivenFailure.code >= 100
                /\ GivenFailure.code < 500) => span' = span
      ]_vars

\* C9, amended: the overwrite happens for a status code in [500,600) and for a
\* generic error; a status code in [100,500) or in [600,999] changes nothing.
C9_ServerErrorsOnly ==
    [][HttpFailureStep =>
        /\ (GivenFailure.tag = "StatusCode" /\ GivenFailure.code >= 500
                /\ GivenFailure.code < 600) =>
              span'["otel.status_code"] = Some("ERROR")
        /\ GivenFailure.tag = "Error" => span'["otel.status_code"] = Some("ERROR")
        /\ (GivenFailure.tag = "StatusCode"
                /\ (GivenFailure.code < 500 \/ GivenFailure.code >= 600)) =>
              (span' = span /\ writes' = writes)
      ]_vars

C9_Witness ==
    /\ layer = "http"
    /\ Len(calls) = 3
    /\ calls[2].cb = "on_response"
    /\ calls[3].cb = "on_failure"
    /\ calls[3].arg = StatusCodeFailure(600)
    /\ OtelStatus = Some("OK")

\* the values recorded into otel.status_code, in order
IsOtelWrite(w) == w[1] = "otel.status_code"
OtelWrites == SelectSeq(writes, IsOtelWrite)

\* C10: over a request's callbacks otel.status_code is written at most twice,
\* as "OK", as "ERROR", or as "OK" then "ERROR"; it holds the last value
\* written, and is empty while nothing was written.
C10_StatusWrites ==
    pc # "new" =>
        /\ Len(OtelWrites) <= 2
        /\ \/ OtelWrites = <<>> /\ OtelStatus = Empty
           \/ OtelWrites = << <<"otel.status_code", "OK">> >> /\ OtelStatus = Some("OK")
           \/ OtelWrites = << <<"otel.status_code", "ERROR">> >> /\ OtelStatus = Some("ERROR")
           \/ /\ OtelWrites = << <<"otel.status_code", "OK">>, <<"otel.status_code", "ERROR">> >>
              /\ OtelStatus = Some("ERROR")

C10_Witness ==
    /\ pc = "done"
    /\ layer = "http"
    /\ OtelWrites = << <<"otel.status_code", "ERROR">> >>
    /\ OtelStatus = Some("ERROR")
    /\ Field("http.status_code") = Empty

-----------------------------------------------------------------------------
(* make_span statement by statement: the statements of lines 159-184 (HTTP)  *)
(* and 236-262 (gRPC) run one at a time, in the order the body lists them.   *)

\* the order make_span runs its last three statements in, with the first two
\* exchanged: the span is created before the context is resolved
MakeSpanSteps_CreateFirst == <<"info_span", "create_context_with_trace", "attach">>

\* let (trace_id, otel_context) = create_context_with_trace(..);
\* let span = info_span!(.., trace_id = %trace_id);
\* match otel_context { .. set_parent(&span, cx) .. add_link(&span, cx) }
MakeSpanSteps == <<"create_context_with_trace", "info_span", "attach">>

\* the statement of make_span that runs next, if any
StepEnabled(name) ==
    /\ pc \in {"new", "making"}
    /\ Len(calls) < Len(MakeSpanSteps)
    /\ MakeSpanSteps[Len(calls) + 1] = name

\* pc after one more statement of make_span
PcAfterStep == IF Len(calls) + 1 = Len(MakeSpanSteps) THEN "span" ELSE "making"

\* the text `trace_id = %trace_id` interpolates: the resolved id once the
\* resolver has returned, and nothing before
TraceIdText == IF otelContext.kind = "None" THEN <<>>
               ELSE TraceIdDisplay(otelContext.trace_id)

\* create_context_with_trace(extract_remote_context(req.headers()))
ResolveContext ==
    /\ StepEnabled("create_context_with_trace")
    /\ \E rnd \in RandomIds :
         otelContext' = create_context_with_trace(
                            extract_remote_context(req, propagator), rnd)
    /\ pc' = PcAfterStep
    /\ calls' = Append(calls, Call("create_context_with_trace", None))
    /\ UNCHANGED <<layer, propagator, req, span, prevSpan, attach, resp, pending,
                   chunks, writes>>

\* tracing::info_span!(..): every field is evaluated as the span is created
CreateSpan ==
    /\ StepEnabled("info_span")
    /\ span' = [(IF layer = "grpc" THEN GrpcSpanFields(req, otelContext.trace_id)
                 ELSE HttpSpanFields(req, otelContext.trace_id))
                EXCEPT !["trace_id"] = Some(TraceIdText)]
    /\ pc' = PcAfterStep
    /\ calls' = Append(calls, Call("info_span", None))
    /\ UNCHANGED <<layer, propagator, req, prevSpan, otelContext, attach, resp,
                   pending, chunks, writes>>

\* match otel_context { Remote(cx) => set_parent(&span, cx), Local(cx) => add_link(&span, cx) }
AttachContext ==
    /\ StepEnabled("attach")
    /\ attach' = Append(attach, AttachCall(otelContext))
    /\ pc' = PcAfterStep
    /\ calls' = Append(calls, Call("attach", None))
    /\ UNCHANGED <<layer, propagator, req, span, prevSpan, otelContext, resp,
                   pending, chunks, writes>>

InitSteps == InitWith(TraceRequests)

NextSteps ==
    \/ ResolveContext
    \/ CreateSpan
    \/ AttachContext

SpecSteps == InitSteps /\ [][NextSteps]_vars

\* the place of a statement in the call log, 0 when it has not run
StepIndex(name) ==
    IF \E i \in 1..Len(calls) : calls[i].cb = name
    THEN CHOOSE i \in 1..Len(calls) : calls[i].cb = name
    ELSE 0

\* C11: in both make_span implementations the context is resolved before the
\* span is created and attached only after; the created span's trace_id field
\* is the resolved trace id and is never empty.
C11_ResolveThenCreate ==
    /\ StepIndex("info_span") > 0 =>
          /\ StepIndex("create_context_with_trace") > 0
          /\ StepIndex("create_context_with_trace") < StepIndex("info_span")
          /\ otelContext.kind \in {"Remote", "Local"}
          /\ Field("trace_id") = Some(TraceIdDisplay(otelContext.trace_id))
          /\ Len(Unwrap(Field("trace_id"))) > 0
    /\ StepIndex("attach") > 0 =>
          /\ StepIndex("info_span") > 0
          /\ StepIndex("info_span") < StepIndex("attach")
    /\ attach # <<>> => StepIndex("attach") > 0
    /\ pc = "span" =>
          /\ span = make_span(layer, req, propagator,
                              [trace_id |-> otelContext.trace_id,
                               span_id |-> otelContext.cx.span_id]).fields
          /\ attach = <<AttachCall(otelContext)>>

C11_Witness ==
    /\ pc = "span"
    /\ layer = "grpc"
    /\ otelContext.kind = "Local"
    /\ otelContext.trace_id = 2
    /\ Field("trace_id") = Some(<<"0", "2">>)
    /\ attach[1].op = "add_link"
    /\ calls = <<Call("create_context_with_trace", None), Call("info_span", None),
                 Call("attach", None)>>

-----------------------------------------------------------------------------

\* the request has had its terminal event: a failure callback has run, or the
\* response stream has reached its end (trailers polled, on_eos run), or the
\* response was abandoned
Terminal ==
    \/ FailureCalls # {}
    \/ \E i \in 1..Len(calls) : calls[i].cb = "on_eos"
    \/ pc \in {"eos", "done"}

\* C12: once a failure has been classified or the response stream has reached
\* end-of-stream, whichever comes first, no later lifecycle callback records
\* into the span: its fields stay as they are.
C12_Finalized ==
    [][Terminal => (span' = span /\ writes' = writes)]_vars

C12_Witness ==
    /\ layer = "grpc"
    /\ pc = "done"
    /\ chunks = 1
    /\ \E i, j \in 1..Len(calls) :
          /\ i < j
          /\ calls[i].cb = "on_failure"
          /\ calls[i].arg = CodeFailure(2)
          /\ calls[j].cb = "on_eos"
    /\ Field("http.grpc_status") = Some(2)
    /\ Len(writes) = 3

-----------------------------------------------------------------------------

\* a step that runs on_request, on_body_chunk or on_eos
NoOpStep ==
    /\ Len(calls') = Len(calls) + 1
    /\ calls'[Len(calls')].cb \in {"on_request", "on_body_chunk", "on_eos"}

\* C13: on_request, on_body_chunk and on_eos are no-ops: whatever ran before
\* and whatever the trailers, the call records nothing and every span field
\* keeps its value.
C13_NoOps ==
    [][NoOpStep => (span' = span /\ writes' = writes)]_vars

C13_Witness ==
    /\ layer = "grpc"
    /\ Len(calls) = 3
    /\ calls[2].cb = "on_response"
    /\ calls[2].arg.status = 500
    /\ calls[3] = Call("on_eos", Some(2))
    /\ Field("http.status_code") = Some(<<"5", "0", "0">>)
    /\ OtelStatus = Some("OK")
    /\ Field("http.grpc_status") = Empty

\* the decimal text of the status codes the handlers answer with
StatusText(st) ==
    CASE st = 200 -> <<"2", "0", "0">>
      [] st = 404 -> <<"4", "0", "4">>
      [] st = 500 -> <<"5", "0", "0">>
      [] st = 599 -> <<"5", "9", "9">>

ResponseCalls == {i \in 1..Len(calls) : calls[i].cb = "on_response"}
IsStatusWrite(w) == w[1] = "http.status_code"
StatusWrites == SelectSeq(writes, IsStatusWrite)

====
